---- MODULE Spec2Model ----
(***************************************************************************)
(* Model of the Single Particle Model class (SPM) and of the BaseFull      *)
(* surface-form electrolyte conductivity submodel of PyBaMM.               *)
(*                                                                         *)
(* The SPM object is modelled by its tables (variables, rhs, algebraic,    *)
(* events), by the position of its constructor (pc) and by the outcome of  *)
(* the last operation invoked on it (exc, ret).  The BaseFull submodel is  *)
(* modelled by its domain, its initial_conditions and the outcome of the   *)
(* last operation invoked on it (sub).                                     *)
(***************************************************************************)
EXTENDS Integers, Sequences, FiniteSets, TLC

VARIABLES
    optionsArg,         \* the `options` argument handed to SPM(options)
    dimensionality,     \* the value of self.options["bc_options"]["dimensionality"]
    pc,                 \* position of SPM.__init__
    terminalVoltageStep,\* the post-processing statement whose dictionary holds "Terminal voltage"
    variables,          \* self.variables: name -> expression
    rhs,                \* keys of self.rhs
    algebraic,          \* keys of self.algebraic
    events,             \* self.events
    exc,                \* exception raised by the last operation on the model
    ret,                \* operation, argument and result of the last call on the built model
    domain,             \* BaseFull: self.domain
    initial_conditions, \* BaseFull: self.initial_conditions
    sub                 \* BaseFull: operation, argument, exception and result of the last call

vars == <<optionsArg, dimensionality, pc, terminalVoltageStep, variables, rhs, algebraic, events, exc, ret,
          domain, initial_conditions, sub>>

spmVars ==
    <<optionsArg, dimensionality, pc, terminalVoltageStep, variables, rhs, algebraic, events,
      exc, ret>>

subVars == <<domain, initial_conditions, sub>>

-----------------------------------------------------------------------------
(* Bounds and input sets *)

MaxDim == 5

Dimensionalities == (-1)..MaxDim

SupportedDimensionalities == {0, 1, 2}

NoOptions == <<"None", "None">>

\* the option dictionaries the tests reject, as <<name, value>>
BadOptions ==
    { <<"bad option", "bad option">>,
      <<"current collector", "bad current collector">>,
      <<"thermal", "bad thermal">>,
      <<"dimensionality", "5">>,
      <<"surface form", "bad surface form">>,
      <<"particle", "bad particle">> }

\* the text the option error has to contain for each rejected dictionary
OptionErrorText(o) ==
    CASE o[1] = "bad option"        -> "option"
      [] o[1] = "current collector" -> "current collector model"
      [] o[1] = "thermal"           -> "thermal model"
      [] o[1] = "dimensionality"    -> "Dimension of current collectors"
      [] o[1] = "surface form"      -> "surface form"
      [] o[1] = "particle"          -> "particle model"
      [] OTHER                      -> ""

\* the option dictionaries the tests construct a model with, as <<name, value>>
GoodOptions ==
    { <<"dimensionality", "0">>, <<"dimensionality", "1">>, <<"dimensionality", "2">> }

OptionArgs == {NoOptions} \cup GoodOptions \cup BadOptions

-----------------------------------------------------------------------------
(* Python dictionaries and exceptions *)

EmptyDict == [n \in {} |-> ""]

\* d[k] = v
DictSet(d, k, v) == [n \in DOMAIN d \cup {k} |-> IF n = k THEN v ELSE d[n]]

\* d.update(c), also {**d, **c}
DictUpdate(d, c) == [n \in DOMAIN d \cup DOMAIN c |-> IF n \in DOMAIN c THEN c[n] ELSE d[n]]

NoExc == <<"none", "">>

Raise(self, kind, detail) == [self EXCEPT !.exc = <<kind, detail>>]

Raised(self) == self.exc # NoExc

-----------------------------------------------------------------------------
(* Submodels and their composition *)

\* the state variables created by SPM.__init__
StateVariables == {"c_s_n", "c_s_p", "v_boundary_cc", "i_boundary_cc"}

\* bc_variables as SPM.__init__ builds it
bc_variables ==
    [isNone |-> FALSE,
     dict   |-> [k \in {"i_boundary_cc", "v_boundary_cc"} |-> k]]

\* the default value of the bc_variables parameter
NoneArg == [isNone |-> TRUE, dict |-> EmptyDict]

\* an empty dictionary passed as bc_variables
EmptyArg == [isNone |-> FALSE, dict |-> EmptyDict]

BcArgs == {NoneArg, EmptyArg, bc_variables}

Tagged(names, tag) == [n \in names |-> tag]

\* pybamm.particle.Standard after set_differential_system(c, j, broadcast=True)
ParticleModel(c, names) ==
    [variables |-> Tagged(names, c), rhs |-> {c}, algebraic |-> {}, events |-> <<>>]

NegativeParticleModel ==
    ParticleModel("c_s_n", {"negative_particle_model.variables"})

PositiveParticleModel ==
    ParticleModel("c_s_p", {"positive_particle_model.variables"})

\* pybamm.current_collector.OhmTwoDimensional after set_algebraic_system(v, i)
OhmTwoDimensional(v, i) ==
    [variables |-> DictSet(DictSet(EmptyDict, "Current collector voltage", v),
                           "Current collector current density", i),
     rhs       |-> {},
     algebraic |-> {v, i},
     events    |-> <<>>]

\* the names a submodel would add that the receiving model already holds
Collisions(self, submodel) ==
    (DOMAIN self.variables \cap DOMAIN submodel.variables)
        \cup ((self.rhs \cup self.algebraic) \cap (submodel.rhs \cup submodel.algebraic))

\* merge of one submodel: a name already present is a collision error
UpdateOne(self, submodel) ==
    IF Raised(self) THEN self
    ELSE IF Collisions(self, submodel) # {}
         THEN Raise(self, "ModelError", CHOOSE n \in Collisions(self, submodel) : TRUE)
         ELSE [self EXCEPT !.variables = DictUpdate(@, submodel.variables),
                           !.rhs       = @ \cup submodel.rhs,
                           !.algebraic = @ \cup submodel.algebraic,
                           !.events    = @ \o submodel.events]

\* self.update(*submodels)
RECURSIVE update(_, _)
update(self, submodels) ==
    IF submodels = <<>> THEN self
    ELSE update(UpdateOne(self, Head(submodels)), Tail(submodels))

-----------------------------------------------------------------------------
(* SPM: the operations keyed by the dimensionality option *)

NoneResult == [isNone |-> TRUE, value |-> <<>>]

Result(v) == [isNone |-> FALSE, value |-> v]

default_geometry(dim) ==
    IF dim = 0 THEN Result(<<"1D macro", "1D micro">>)
    ELSE IF dim = 1 THEN Result(<<"1+1D macro", "1D micro">>)
    ELSE IF dim = 2 THEN Result(<<"2+1D macro", "1D micro">>)
    ELSE NoneResult

SubmeshDomains ==
    {"negative electrode", "separator", "positive electrode",
     "negative particle", "positive particle", "current collector"}

\* default_submesh_types with the 2-D mesh given to every domain at dimensionality 2
default_submesh_types_all2D(dim) ==
    IF dim \in {0, 1}
    THEN Result([d \in SubmeshDomains |-> "Uniform1DSubMesh"])
    ELSE IF dim = 2
    THEN Result([d \in SubmeshDomains |-> "FenicsMesh2D"])
    ELSE NoneResult

default_submesh_types(dim) ==
    IF dim \in {0, 1}
    THEN Result([d \in SubmeshDomains |-> "Uniform1DSubMesh"])
    ELSE IF dim = 2
    THEN Result([d \in SubmeshDomains |->
                    IF d = "current collector" THEN "FenicsMesh2D" ELSE "Uniform1DSubMesh"])
    ELSE NoneResult

MethodDomains ==
    {"macroscale", "negative particle", "positive particle", "current collector"}

default_spatial_methods(dim) ==
    IF dim \in {0, 1}
    THEN Result([d \in MethodDomains |-> "FiniteVolume"])
    ELSE IF dim = 2
    THEN Result([d \in MethodDomains |->
                    IF d = "current collector" THEN "FiniteElementFenics" ELSE "FiniteVolume"])
    ELSE NoneResult

\* bc_variables[k]
BcLookupFails(bc, k) == bc.isNone \/ k \notin DOMAIN bc.dict

BcLookupError(self, bc, k) ==
    IF bc.isNone THEN Raise(self, "TypeError", "bc_variables") ELSE Raise(self, "KeyError", k)

\* set_boundary_conditions with the dimensionality 1 branch doing nothing
set_boundary_conditions_dim1_passes(self, bc, dim) ==
    IF dim = 0
    THEN [self EXCEPT !.variables =
            DictSet(DictSet(@, "Current collector current density", "current_with_time"),
                    "Current collector voltage", "Scalar(1)")]
    ELSE IF dim = 2
    THEN IF BcLookupFails(bc, "i_boundary_cc") THEN BcLookupError(self, bc, "i_boundary_cc")
         ELSE IF BcLookupFails(bc, "v_boundary_cc") THEN BcLookupError(self, bc, "v_boundary_cc")
         ELSE update(self, <<OhmTwoDimensional(bc.dict["v_boundary_cc"],
                                                bc.dict["i_boundary_cc"])>>)
    ELSE self

set_boundary_conditions(self, bc, dim) ==
    IF dim = 0
    THEN [self EXCEPT !.variables =
            DictSet(DictSet(@, "Current collector current density", "current_with_time"),
                    "Current collector voltage", "Scalar(1)")]
    ELSE IF dim = 1
    THEN Raise(self, "NotImplementedError", "")
    ELSE IF dim = 2
    THEN IF BcLookupFails(bc, "i_boundary_cc") THEN BcLookupError(self, bc, "i_boundary_cc")
         ELSE IF BcLookupFails(bc, "v_boundary_cc") THEN BcLookupError(self, bc, "v_boundary_cc")
         ELSE update(self, <<OhmTwoDimensional(bc.dict["v_boundary_cc"],
                                                bc.dict["i_boundary_cc"])>>)
    ELSE self

-----------------------------------------------------------------------------
(* SPM.__init__, statement by statement *)

\* The dictionaries returned by the submodels' get_* methods are opaque: each is
\* one entry standing for whatever the call returns, keyed by the name of the
\* local variable of SPM.__init__ that holds it.  What the calls read from the
\* Variable Table is not modelled.
Opaque(local) == Tagged({local}, local)

conc_vars == Opaque("conc_vars")

j_vars == Opaque("j_vars")

ocp_vars == Opaque("ocp_vars")

eta_r_vars == Opaque("eta_r_vars")

elyte_vars == Opaque("elyte_vars")

electrode_vars == Opaque("electrode_vars")

\* the post-processing statements of SPM.__init__ that add to the Variable Table
PostProcessingSteps == {"conc", "j", "potentials", "elyte", "electrode"}

\* The lookup of "Terminal voltage" resolves when SPM() is constructed, so one of
\* the post-processing dictionaries holds it; which one is not fixed here.
WithTerminalVoltage(label, tvStep, d) ==
    IF label = tvStep THEN DictSet(d, "Terminal voltage", label) ELSE d

\* the dictionary the post-processing statement at a position adds
Returned(label, tvStep) ==
    WithTerminalVoltage(label, tvStep,
        CASE label = "conc"       -> conc_vars
          [] label = "j"          -> j_vars
          [] label = "potentials" -> DictUpdate(ocp_vars, eta_r_vars)
          [] label = "elyte"      -> elyte_vars
          [] label = "electrode"  -> electrode_vars)

\* self.variables.update(c)
VariablesUpdate(self, c) == [self EXCEPT !.variables = DictUpdate(@, c)]

\* voltage = self.variables["Terminal voltage"]; self.events.append(voltage - cut-off)
CutOffVoltage(self) ==
    IF "Terminal voltage" \in DOMAIN self.variables
    THEN [self EXCEPT !.events = Append(@, "Terminal voltage - voltage_low_cut")]
    ELSE Raise(self, "KeyError", "Terminal voltage")

Stages ==
    {"new", "bc", "particles", "conc", "j", "potentials", "elyte", "electrode", "cutoff"}

\* the statements of SPM.__init__ at one position
Step(label, self, dim, tvStep) ==
    CASE label = "new"       -> self
      [] label = "bc"        -> set_boundary_conditions(self, bc_variables, dim)
      [] label = "particles" -> update(self, <<NegativeParticleModel, PositiveParticleModel>>)
      [] label \in PostProcessingSteps -> VariablesUpdate(self, Returned(label, tvStep))
      [] label = "cutoff"    -> CutOffVoltage(self)

\* the order of the statements of SPM.__init__
NextPc(label) ==
    CASE label = "new"        -> "bc"
      [] label = "bc"         -> "particles"
      [] label = "particles"  -> "conc"
      [] label = "conc"       -> "j"
      [] label = "j"          -> "potentials"
      [] label = "potentials" -> "elyte"
      [] label = "elyte"      -> "electrode"
      [] label = "electrode"  -> "cutoff"
      [] label = "cutoff"     -> "constructed"

-----------------------------------------------------------------------------
(* The SPM object as a state machine *)

Self ==
    [variables |-> variables, rhs |-> rhs, algebraic |-> algebraic,
     events |-> events, exc |-> exc]

Commit(m) ==
    /\ variables' = m.variables
    /\ rhs' = m.rhs
    /\ algebraic' = m.algebraic
    /\ events' = m.events
    /\ exc' = m.exc

NoCall == [op |-> "none", arg |-> NoneArg, isNone |-> TRUE, value |-> <<>>]

Call(op, arg, r) == [op |-> op, arg |-> arg, isNone |-> r.isNone, value |-> r.value]

\* the statements at one position, then the next position or the abort
Stage(label) ==
    /\ LET m == Step(label, Self, dimensionality, terminalVoltageStep)
       IN  /\ Commit(m)
           /\ pc' = IF Raised(m) THEN "aborted" ELSE NextPc(label)
    /\ UNCHANGED <<optionsArg, terminalVoltageStep, dimensionality, ret, subVars>>

\* super().__init__() and the name: the options argument is not passed on
SuperInit ==
    /\ pc = "new"
    /\ Stage("new")

InitBoundaryConditions ==
    /\ pc = "bc"
    /\ Stage("bc")

InitParticles ==
    /\ pc = "particles"
    /\ Stage("particles")

InitElectrolyteConcentration ==
    /\ pc = "conc"
    /\ Stage("conc")

InitExchangeCurrent ==
    /\ pc = "j"
    /\ Stage("j")

InitPotentials ==
    /\ pc = "potentials"
    /\ Stage("potentials")

InitElectrolyteCurrent ==
    /\ pc = "elyte"
    /\ Stage("elyte")

InitElectrode ==
    /\ pc = "electrode"
    /\ Stage("electrode")

InitCutOff ==
    /\ pc = "cutoff"
    /\ Stage("cutoff")

Getter(op, r) ==
    /\ ret' = Call(op, NoneArg, r)
    /\ exc' = NoExc
    /\ UNCHANGED <<optionsArg, terminalVoltageStep, dimensionality, pc, variables, rhs, algebraic, events, subVars>>

GetDefaultGeometry ==
    /\ pc = "constructed"
    /\ Getter("default_geometry", default_geometry(dimensionality))

GetDefaultSubmeshTypes ==
    /\ pc = "constructed"
    /\ Getter("default_submesh_types", default_submesh_types(dimensionality))

GetDefaultSpatialMethods ==
    /\ pc = "constructed"
    /\ Getter("default_spatial_methods", default_spatial_methods(dimensionality))

\* model.set_boundary_conditions(bc) on a constructed model
CallSetBoundaryConditions ==
    /\ pc = "constructed"
    /\ \E bc \in BcArgs :
         /\ Commit(set_boundary_conditions([Self EXCEPT !.exc = NoExc], bc, dimensionality))
         /\ ret' = Call("set_boundary_conditions", bc, NoneResult)
    /\ UNCHANGED <<optionsArg, terminalVoltageStep, dimensionality, pc, subVars>>

\* the dimensionality option is looked up in self.options at every call, so a
\* change of the option on a constructed model takes effect at the next call
SetDimensionality ==
    /\ pc = "constructed"
    /\ \E d \in Dimensionalities :
         /\ d # dimensionality
         /\ dimensionality' = d
    /\ ret' = [op |-> "options", arg |-> NoneArg, isNone |-> TRUE, value |-> <<>>]
    /\ exc' = NoExc
    /\ UNCHANGED <<optionsArg, terminalVoltageStep, pc, variables, rhs, algebraic, events, subVars>>

-----------------------------------------------------------------------------
(* BaseFull: the full surface-form conductivity submodel *)

Domains == {"Negative", "Positive", "Separator", "negative"}

\* self.domain + " electrode surface potential difference"
SurfaceKey(d) == <<d, " electrode surface potential difference">>

\* pybamm.standard_variables.delta_phi_n and delta_phi_p
delta_phi(d) == IF d = "Negative" THEN "delta_phi_n" ELSE "delta_phi_p"

\* the variables tables handed to set_initial_conditions
VariableTables ==
    { [k \in { SurfaceKey(d) : d \in D } |-> <<"delta_phi", k[1]>>] :
        D \in { {} } \cup { {d} : d \in Domains } \cup { Domains } }

\* self._get_standard_surface_potential_difference_variables(delta_phi)
StandardSurfacePotentialDifferenceVariables(d, v) == [k \in {SurfaceKey(d)} |-> v]

NoSubCall == [op |-> "none", arg |-> EmptyDict, exc |-> NoExc, value |-> EmptyDict]

get_fundamental_variables(d) ==
    IF d = "Negative" \/ d = "Positive"
    THEN [exc |-> NoExc, value |-> StandardSurfacePotentialDifferenceVariables(d, delta_phi(d))]
    ELSE [exc |-> <<"DomainError", "">>, value |-> EmptyDict]

\* the outcome of set_initial_conditions: the exception and the initial conditions after it
set_initial_conditions(d, ic, table) ==
    IF SurfaceKey(d) \notin DOMAIN table
    THEN [exc |-> <<"KeyError", d>>, ic |-> ic]
    ELSE IF d = "Negative"
    THEN [exc |-> NoExc, ic |-> [e \in {table[SurfaceKey(d)]} |-> "U_n(c_n_init)"]]
    ELSE IF d = "Positive"
    THEN [exc |-> NoExc, ic |-> [e \in {table[SurfaceKey(d)]} |-> "U_p(c_p_init)"]]
    ELSE [exc |-> <<"DomainError", "">>, ic |-> ic]

CallGetFundamentalVariables ==
    /\ LET r == get_fundamental_variables(domain)
       IN  sub' = [op |-> "get_fundamental_variables", arg |-> EmptyDict,
                   exc |-> r.exc, value |-> r.value]
    /\ UNCHANGED <<domain, initial_conditions, spmVars>>

CallSetInitialConditions ==
    /\ \E table \in VariableTables :
         LET r == set_initial_conditions(domain, initial_conditions, table)
         IN  /\ initial_conditions' = r.ic
             /\ sub' = [op |-> "set_initial_conditions", arg |-> table,
                        exc |-> r.exc, value |-> EmptyDict]
    /\ UNCHANGED <<domain, spmVars>>

-----------------------------------------------------------------------------
(* Specification *)

Init ==
    /\ optionsArg \in OptionArgs
    /\ dimensionality \in Dimensionalities
    /\ pc = "new"
    /\ terminalVoltageStep \in PostProcessingSteps
    /\ variables = EmptyDict
    /\ rhs = {}
    /\ algebraic = {}
    /\ events = <<>>
    /\ exc = NoExc
    /\ ret = NoCall
    /\ domain \in Domains
    /\ initial_conditions = EmptyDict
    /\ sub = NoSubCall

Next ==
    \/ SuperInit
    \/ InitBoundaryConditions
    \/ InitParticles
    \/ InitElectrolyteConcentration
    \/ InitExchangeCurrent
    \/ InitPotentials
    \/ InitElectrolyteCurrent
    \/ InitElectrode
    \/ InitCutOff
    \/ GetDefaultGeometry
    \/ GetDefaultSubmeshTypes
    \/ GetDefaultSpatialMethods
    \/ CallSetBoundaryConditions
    \/ SetDimensionality
    \/ CallGetFundamentalVariables
    \/ CallSetInitialConditions

Spec == Init /\ [][Next]_vars

-----------------------------------------------------------------------------
(* Properties *)

DimensionalityKeyedOperations ==
    {"default_geometry", "default_submesh_types", "default_spatial_methods",
     "set_boundary_conditions"}

\* C1: for every dimensionality outside {0, 1, 2}, default_geometry,
\* default_submesh_types, default_spatial_methods and set_boundary_conditions
\* (called on a constructed model or by the constructor) fail with a
\* configuration error.
C1_UnsupportedDimensionalityIsAnError ==
    dimensionality \notin SupportedDimensionalities =>
        /\ ret.op \in DimensionalityKeyedOperations => exc[1] = "OptionError"
        /\ pc \notin {"new", "bc", "constructed"} =>
              pc = "aborted" /\ exc[1] = "OptionError"

\* C2: SPM(options) with an unrecognised option name or an unsupported option
\* value raises an option error naming the option, before anything has been
\* added to the model.
C2_BadOptionsRejectedAtConstruction ==
    (optionsArg \in BadOptions /\ pc # "new") =>
        /\ pc = "aborted"
        /\ exc = <<"OptionError", OptionErrorText(optionsArg)>>
        /\ DOMAIN variables = {}
        /\ rhs = {}
        /\ algebraic = {}
        /\ events = <<>>

\* C3: with dimensionality 1 set_boundary_conditions raises NotImplementedError;
\* the constructor never gets past it, and the aborted model has no submodel
\* contribution, no equation and no event.
C3_DimensionOneFailsFast ==
    /\ (dimensionality = 1 /\ pc \notin {"new", "bc", "constructed"}) =>
            /\ pc = "aborted"
            /\ exc = <<"NotImplementedError", "">>
    /\ (pc = "aborted" /\ exc[1] = "NotImplementedError") =>
            /\ dimensionality = 1
            /\ DOMAIN variables = {}
            /\ rhs = {}
            /\ algebraic = {}
            /\ events = <<>>
    /\ (dimensionality = 1 /\ ret.op = "set_boundary_conditions") =>
            exc = <<"NotImplementedError", "">>

C3_Witness ==
    /\ dimensionality = 1
    /\ pc = "aborted"
    /\ exc = <<"NotImplementedError", "">>

\* the names the statement at a position adds to the Variable Table
Contribution(label, bc, dim, tvStep) ==
    CASE label = "bc" ->
            IF dim = 0 \/ (dim = 2 /\ ~BcLookupFails(bc, "i_boundary_cc")
                                   /\ ~BcLookupFails(bc, "v_boundary_cc"))
            THEN {"Current collector current density", "Current collector voltage"}
            ELSE {}
      [] label = "particles"  ->
            DOMAIN NegativeParticleModel.variables \cup DOMAIN PositiveParticleModel.variables
      [] label \in PostProcessingSteps -> DOMAIN Returned(label, tvStep)
      [] OTHER                -> {}

\* the names merged by the step being taken, if it is a step of the SPM model
Merged ==
    IF pc \in Stages /\ pc' # pc
    THEN Contribution(pc, bc_variables, dimensionality, terminalVoltageStep)
    ELSE IF pc = "constructed" /\ ret'.op = "set_boundary_conditions"
            /\ (ret' # ret \/ variables' # variables \/ exc' # exc)
    THEN Contribution("bc", ret'.arg, dimensionality, terminalVoltageStep)
    ELSE {}

\* C4: a step that merges a name already present in the Variable Table raises a
\* collision error and leaves the table as it was; a step that merges new names
\* only succeeds and the table becomes the union.
C4_MergeCollisionIsAnError ==
    [][ Merged # {} =>
            IF Merged \cap DOMAIN variables # {}
            THEN exc'[1] = "ModelError" /\ variables' = variables
            ELSE exc' = NoExc /\ DOMAIN variables' = DOMAIN variables \cup Merged ]_vars

\* dimension of a submesh class
SubmeshDimension(c) ==
    CASE c = "SubMesh0D" -> 0
      [] c = "Uniform1DSubMesh" -> 1
      [] c \in {"FenicsMesh2D", "Scikit2DSubMesh"} -> 2

\* kind of a spatial method class
MethodKind(c) ==
    CASE c = "ZeroDimensionalMethod" -> "zero-dimensional"
      [] c = "FiniteVolume" -> "finite volume"
      [] c \in {"FiniteElementFenics", "ScikitFiniteElement"} -> "finite element"

MethodKindOfDimension(d) ==
    CASE d = 0 -> "zero-dimensional"
      [] d = 1 -> "finite volume"
      [] d = 2 -> "finite element"

\* C6: for dimensionality d in {0, 1, 2} the default current-collector submesh
\* has dimension d, the default current-collector method is zero-dimensional,
\* finite volume and finite element respectively, and default_geometry returns
\* a geometry.
C6_CurrentCollectorDefaultsMatchDimension ==
    dimensionality \in SupportedDimensionalities =>
        /\ ret.op = "default_submesh_types" =>
              /\ ~ret.isNone
              /\ SubmeshDimension(ret.value["current collector"]) = dimensionality
        /\ ret.op = "default_spatial_methods" =>
              /\ ~ret.isNone
              /\ MethodKind(ret.value["current collector"])
                    = MethodKindOfDimension(dimensionality)
        /\ ret.op = "default_geometry" => ~ret.isNone

\* C7: for every supported dimensionality the default submesh types cover the
\* same six domains and the default spatial methods the same four, and every
\* entry other than the current collector's is the uniform 1-D submesh, resp.
\* the finite volume method.
C7_OnlyCurrentCollectorDependsOnDimension ==
    dimensionality \in SupportedDimensionalities =>
        /\ ret.op = "default_submesh_types" =>
              /\ ~ret.isNone
              /\ DOMAIN ret.value =
                    {"negative electrode", "separator", "positive electrode",
                     "negative particle", "positive particle", "current collector"}
              /\ \A d \in DOMAIN ret.value \ {"current collector"} :
                    ret.value[d] = "Uniform1DSubMesh"
        /\ ret.op = "default_spatial_methods" =>
              /\ ~ret.isNone
              /\ DOMAIN ret.value =
                    {"macroscale", "negative particle", "positive particle",
                     "current collector"}
              /\ \A d \in DOMAIN ret.value \ {"current collector"} :
                    ret.value[d] = "FiniteVolume"

C7_Witness ==
    /\ dimensionality = 2
    /\ ret.op = "default_submesh_types"
    /\ ~ret.isNone
    /\ ret.value["current collector"] = "FenicsMesh2D"

\* C8: in a model just constructed with dimensionality 0 or 2, each of the four
\* state variables is a key of exactly one of rhs and algebraic.
C8_EveryStateHasExactlyOneEquation ==
    (pc = "constructed" /\ ret = NoCall /\ dimensionality \in {0, 2}) =>
        \A v \in StateVariables : (v \in rhs) # (v \in algebraic)

\* C10: with a domain other than "Negative" and "Positive" both operations of
\* BaseFull raise a domain error carrying the domain, whatever table is passed,
\* and initial_conditions stay as they were; with "Negative" or "Positive"
\* set_initial_conditions leaves exactly one entry, keyed by the domain's
\* surface potential difference variable.
C10_BadDomainIsADomainError ==
    /\ (domain \notin {"Negative", "Positive"} /\ sub.op # "none") =>
            /\ sub.exc = <<"DomainError", domain>>
            /\ initial_conditions = EmptyDict
    /\ (domain \in {"Negative", "Positive"} /\ sub.op = "set_initial_conditions"
            /\ sub.exc = NoExc) =>
            DOMAIN initial_conditions = {sub.arg[SurfaceKey(domain)]}

====
